---- MODULE Spec2Model ----
(***************************************************************************)
(* gh-myprs: the concurrent fetch-and-render pipeline of PRChecker.Run and *)
(* the display-width aware truncateString, as in the concurrent version of *)
(* the program (the one main_test.go exercises).                           *)
(*                                                                         *)
(* Strings whose display width matters are sequences of one-character      *)
(* strings; "W" stands for any double-width codepoint (CJK, fullwidth),    *)
(* every other character is single-width.  A Go pointer is a sequence of   *)
(* length 0 (nil) or 1 (the value pointed at).                             *)
(***************************************************************************)
EXTENDS Integers, Sequences, FiniteSets, TLC

(* ------------------------------ bounds --------------------------------- *)
MaxLen == 4        \* longest input string given to truncateString
MaxWidth == 8      \* largest target width given to truncateString
MaxIssues == 2     \* most issues in one search response

(* ------------------------- program constants --------------------------- *)
categoryCreated == "created"
categoryReviewer == "requested"
maxTitleLength == 33
maxUpdateLength == 17
ChanCap_One == 2 - 1
ChanCap == 2

Categories == <<categoryCreated, categoryReviewer>>
CategorySet == {Categories[i] : i \in 1..Len(Categories)}

Nil == <<>>
Ptr(v) == <<v>>

(* ------------------------------ TextMetrics ---------------------------- *)
Alphabet == {"a", "W"}
Strings == UNION {[1..k -> Alphabet] : k \in 0..MaxLen}
Ellipsis == <<".", ".", ".">>

RuneWidth(r) == IF r = "W" THEN 2 ELSE 1

RECURSIVE StringWidth(_)
StringWidth(s) ==
  IF s = <<>> THEN 0 ELSE RuneWidth(Head(s)) + StringWidth(Tail(s))

\* strings.Repeat(ch, n) for n >= 0 (a negative count panics, see truncateString)
Repeat(ch, n) == [i \in 1..n |-> ch]

FitsAsIs_Strict(width, maxLength) == width < maxLength
\* the test of the early return: width <= maxLength
FitsAsIs(width, maxLength) == width <= maxLength

EllipsisOverflows_Off(width, w, maxLength) == width + w + 3 >= maxLength
\* the break test of the loop: width+w+3 > maxLength
EllipsisOverflows(width, w, maxLength) == width + w + 3 > maxLength

\* the loop over the runes of s: keeps runes until the break test fires
RECURSIVE truncated(_, _, _, _)
truncated(s, width, acc, maxLength) ==
  IF s = <<>> THEN acc
  ELSE LET w == RuneWidth(Head(s)) IN
       IF EllipsisOverflows(width, w, maxLength) THEN acc
       ELSE truncated(Tail(s), width + w, Append(acc, Head(s)), maxLength)

Padding_None(maxLength, resultWidth) == 0
\* the count handed to the final strings.Repeat
Padding(maxLength, resultWidth) == maxLength - resultWidth

\* truncateString: panic is TRUE when strings.Repeat is given a negative count
truncateString(s, maxLength) ==
  LET width == StringWidth(s) IN
  IF FitsAsIs(width, maxLength)
  THEN IF maxLength - width < 0
       THEN [panic |-> TRUE, str |-> s]
       ELSE [panic |-> FALSE, str |-> s \o Repeat(" ", maxLength - width)]
  ELSE LET result == truncated(s, 0, <<>>, maxLength) \o Ellipsis
           resultWidth == StringWidth(result)
       IN IF Padding(maxLength, resultWidth) < 0
          THEN [panic |-> TRUE, str |-> result]
          ELSE [panic |-> FALSE,
                str |-> result \o Repeat(" ", Padding(maxLength, resultWidth))]

(* ------------------------------ environment ---------------------------- *)
\* github.User as decoded by the identity call, or the call's error
IdentityResponses ==
  { [err |-> TRUE,  login |-> Nil],
    [err |-> FALSE, login |-> Nil],
    [err |-> FALSE, login |-> Ptr("")],
    [err |-> FALSE, login |-> Ptr("alice")] }

\* github.Issue: Title, HTMLURL and UpdatedAt are pointers
IssueKinds ==
  { [Title |-> Ptr(<<"a", "W">>), HTMLURL |-> Ptr("url"), UpdatedAt |-> Ptr("now")],
    [Title |-> Nil,               HTMLURL |-> Ptr("url"), UpdatedAt |-> Ptr("now")],
    [Title |-> Ptr(<<"a", "W">>), HTMLURL |-> Nil,        UpdatedAt |-> Ptr("now")],
    [Title |-> Ptr(<<"a", "W">>), HTMLURL |-> Ptr("url"), UpdatedAt |-> Nil] }

IssueLists == UNION {[1..k -> IssueKinds] : k \in 0..MaxIssues}

\* what the search provider answers to one call: an error or an issue list
SearchResponses ==
  {[err |-> TRUE, Issues |-> <<>>]} \cup {[err |-> FALSE, Issues |-> l] : l \in IssueLists}

VARIABLES
  identity,     \* the identity provider's answer to GET user (fetchGitHubUsername)
  response,     \* per category, the search provider's answer (fetchPullRequests)
  mainPc,       \* main: "start", "fatal" (NewPRChecker failed), "ready", "running"
  username,     \* PRChecker.username
  runPc,        \* Run: "idle", "loop", "returned", "panicked"
  ret,          \* Run's return value: "none", "nil", "fetchErr", "renderErr"
  ctxErr,       \* ctx.Err(): "none", "DeadlineExceeded", "Canceled"
  taskPc,       \* per category: "unspawned", "ready", "calling", "sending", "done"
  taskResult,   \* per category, the AsyncPRResult the task built
  results,      \* the buffered channel's content
  closed,       \* the channel is closed
  wg,           \* the WaitGroup's counter
  output,       \* what has been printed, line by line
  searchCalls,  \* per category, the number of search calls issued
  inputS, inputW, fitDone, fitResult,  \* one call of truncateString
  unitCategory, unitUser, unitIssues,  \* the arguments of one call of
                                       \* buildSearchQuery and displayPullRequests
  unitOutput,                          \* the terminal around that call
  queryDone, queryResult,              \* buildSearchQuery has returned, and what
  renderDone, renderResult             \* displayPullRequests has ended, and how

runVars == <<identity, response, mainPc, username, runPc, ret, ctxErr, taskPc,
             taskResult, results, closed, wg, output, searchCalls>>
fitVars == <<inputS, inputW, fitDone, fitResult>>
unitVars == <<unitCategory, unitUser, unitIssues, unitOutput,
              queryDone, queryResult, renderDone, renderResult>>
vars == <<runVars, fitVars, unitVars>>

NoResult == [Issues |-> <<>>, Category |-> "", Error |-> "nil"]

(* ------------------------------ identity ------------------------------- *)
\* the test user.Login == nil
LoginMissing(user) == user.login = Nil

fetchGitHubUsername(resp) ==
  IF resp.err THEN [err |-> TRUE, name |-> ""]
  ELSE IF LoginMissing(resp) THEN [err |-> TRUE, name |-> ""]
  ELSE [err |-> FALSE, name |-> resp.login[1]]

(* ------------------------------ QueryBuilder --------------------------- *)
baseQuery == "is:open+is:pr+archived:false"

buildSearchQuery_Swapped(category, user) ==
  IF category = categoryCreated
  THEN [err |-> FALSE, query |-> <<baseQuery, "+user-review-requested:", user>>]
  ELSE IF category = categoryReviewer
  THEN [err |-> FALSE, query |-> <<baseQuery, "+author:", user>>]
  ELSE [err |-> TRUE, query |-> <<>>]

\* the switch on category: one query per constant, an error otherwise
buildSearchQuery(category, user) ==
  IF category = categoryCreated
  THEN [err |-> FALSE, query |-> <<baseQuery, "+author:", user>>]
  ELSE IF category = categoryReviewer
  THEN [err |-> FALSE, query |-> <<baseQuery, "+user-review-requested:", user>>]
  ELSE [err |-> TRUE, query |-> <<>>]

(* ------------------------------ TableRenderer -------------------------- *)
displaySectionHeader_PrintsFirst(category, user) ==
  IF category \in {categoryCreated, categoryReviewer}
  THEN [out |-> << <<"header", category, user>> >>, err |-> "nil"]
  ELSE [out |-> << <<"header", category, user>> >>, err |-> "UnsupportedCategory"]

\* the lines printed for one section; err is "nil" or the error kind
displaySectionHeader(category, user) ==
  IF category \in {categoryCreated, categoryReviewer}
  THEN [out |-> << <<"header", category, user>> >>, err |-> "nil"]
  ELSE [out |-> <<>>, err |-> "UnsupportedCategory"]

displayTableHeader == << <<"columns">>, <<"separator">> >>

\* the test issue.Title == nil || issue.HTMLURL == nil
IssueInvalid(issue) == issue.Title = Nil \/ issue.HTMLURL = Nil

\* the loop of displayIssues; panic is the nil dereference of issue.UpdatedAt
RECURSIVE displayIssues(_, _)
displayIssues(issues, acc) ==
  IF issues = <<>> THEN [out |-> acc, err |-> "nil", panic |-> FALSE]
  ELSE LET issue == Head(issues) IN
       IF IssueInvalid(issue)
       THEN [out |-> acc, err |-> "InvalidIssueData", panic |-> FALSE]
       ELSE IF issue.UpdatedAt = Nil
       THEN [out |-> acc, err |-> "nil", panic |-> TRUE]
       ELSE LET title == truncateString(issue.Title[1], maxTitleLength)
                updated == truncateString(<<"n", "o", "w">>, maxUpdateLength)
            IN displayIssues(Tail(issues),
                 Append(acc, <<"row", title.str, updated.str, issue.HTMLURL[1]>>))

displayPullRequests_NoEmptyCheck(issues, category, user) ==
  LET h == displaySectionHeader(category, user) IN
  IF h.err # "nil" THEN [out |-> h.out, err |-> h.err, panic |-> FALSE]
  ELSE LET d == displayIssues(issues, <<>>)
           printed == h.out \o displayTableHeader \o d.out
       IN IF d.panic \/ d.err # "nil"
          THEN [out |-> printed, err |-> d.err, panic |-> d.panic]
          ELSE [out |-> printed \o << <<"blank">> >>, err |-> "nil", panic |-> FALSE]

displayPullRequests(issues, category, user) ==
  LET h == displaySectionHeader(category, user) IN
  IF h.err # "nil" THEN [out |-> h.out, err |-> h.err, panic |-> FALSE]
  ELSE IF Len(issues) = 0
  THEN [out |-> h.out \o << <<"noResults">> >>, err |-> "nil", panic |-> FALSE]
  ELSE LET d == displayIssues(issues, <<>>)
           printed == h.out \o displayTableHeader \o d.out
       IN IF d.panic \/ d.err # "nil"
          THEN [out |-> printed, err |-> d.err, panic |-> d.panic]
          ELSE [out |-> printed \o << <<"blank">> >>, err |-> "nil", panic |-> FALSE]

(* ------------------------------ fetch task ----------------------------- *)
\* githubRESTClient.Get: the context is not handed to the REST client, so the
\* call returns whatever, and whenever, the network answers
Get(ctx, answer) == answer

\* fetchPullRequests once the call has returned: (*IssuesSearchResult, error)
fetchPullRequests(ctx, category, user, answer) ==
  LET q == buildSearchQuery(category, user) IN
  IF q.err THEN [issues |-> Nil, err |-> "UnsupportedCategory"]
  ELSE LET r == Get(ctx, answer) IN
       IF r.err THEN [issues |-> Nil, err |-> "FetchFailed"]
       ELSE [issues |-> Ptr(r.Issues), err |-> "nil"]

\* the AsyncPRResult a task sends
AsyncPRResult(ctx, category, user, answer) ==
  LET f == fetchPullRequests(ctx, category, user, answer) IN
  [Issues |-> IF f.issues # Nil THEN f.issues[1] ELSE <<>>,
   Category |-> category,
   Error |-> f.err]

(* ------------------------------ Run's loop body ------------------------ *)
ProcessResult_SkipFailed(result, user) ==
  IF result.Error # "nil" THEN [out |-> <<>>, ret |-> "none", pc |-> "loop"]
  ELSE LET d == displayPullRequests(result.Issues, result.Category, user) IN
       IF d.panic THEN [out |-> d.out, ret |-> "none", pc |-> "panicked"]
       ELSE IF d.err # "nil" THEN [out |-> d.out, ret |-> "renderErr", pc |-> "returned"]
       ELSE [out |-> d.out, ret |-> "none", pc |-> "loop"]

\* one iteration of `for result := range results`
ProcessResult(result, user) ==
  IF result.Error # "nil" THEN [out |-> <<>>, ret |-> "fetchErr", pc |-> "returned"]
  ELSE LET d == displayPullRequests(result.Issues, result.Category, user) IN
       IF d.panic THEN [out |-> d.out, ret |-> "none", pc |-> "panicked"]
       ELSE IF d.err # "nil" THEN [out |-> d.out, ret |-> "renderErr", pc |-> "returned"]
       ELSE [out |-> d.out, ret |-> "none", pc |-> "loop"]

\* defer cancel(): the context is cancelled when Run returns
Cancelled(e) == IF e = "none" THEN "Canceled" ELSE e

(* ------------------------------ initial states ------------------------- *)
RunFresh ==
  /\ mainPc = "start"
  /\ username = ""
  /\ runPc = "idle"
  /\ ret = "none"
  /\ ctxErr = "none"
  /\ taskPc = [c \in CategorySet |-> "unspawned"]
  /\ taskResult = [c \in CategorySet |-> NoResult]
  /\ results = <<>>
  /\ closed = FALSE
  /\ wg = 0
  /\ output = <<>>
  /\ searchCalls = [c \in CategorySet |-> 0]

FitIdle ==
  /\ inputS = <<>>
  /\ inputW = 0
  /\ fitDone = FALSE
  /\ fitResult = [panic |-> FALSE, str |-> <<>>]

UnitIdle ==
  /\ unitCategory = categoryCreated
  /\ unitUser = ""
  /\ unitIssues = <<>>
  /\ unitOutput = <<>>
  /\ queryDone = FALSE
  /\ queryResult = [err |-> FALSE, query |-> <<>>]
  /\ renderDone = FALSE
  /\ renderResult = [err |-> "nil", panic |-> FALSE]

Init ==
  /\ identity \in IdentityResponses
  /\ response \in [CategorySet -> SearchResponses]
  /\ RunFresh
  /\ FitIdle
  /\ UnitIdle

(* ------------------------------ actions -------------------------------- *)
\* main: NewPRChecker resolves the identity; log.Fatal on failure
NewPRChecker ==
  /\ mainPc = "start"
  /\ LET u == fetchGitHubUsername(identity) IN
       IF u.err
       THEN /\ mainPc' = "fatal"
            /\ UNCHANGED username
       ELSE /\ mainPc' = "ready"
            /\ username' = u.name
  /\ UNCHANGED <<identity, response, runPc, ret, ctxErr, taskPc, taskResult,
                 results, closed, wg, output, searchCalls>>
  /\ UNCHANGED <<fitVars, unitVars>>

\* Run up to its receive loop: context, channel, one goroutine per category,
\* the goroutine that closes the channel
RunStart ==
  /\ mainPc = "ready"
  /\ runPc = "idle"
  /\ mainPc' = "running"
  /\ runPc' = "loop"
  /\ ctxErr' = "none"
  /\ results' = <<>>
  /\ closed' = FALSE
  /\ wg' = Len(Categories)
  /\ taskPc' = [c \in CategorySet |-> "ready"]
  /\ UNCHANGED <<identity, response, username, ret, taskResult, output, searchCalls>>
  /\ UNCHANGED <<fitVars, unitVars>>

\* a task builds its query and issues the search call
TaskCall(c) ==
  /\ runPc # "panicked"
  /\ taskPc[c] = "ready"
  /\ IF buildSearchQuery(c, username).err
     THEN /\ taskResult' = [taskResult EXCEPT ![c] = AsyncPRResult(ctxErr, c, username, response[c])]
          /\ taskPc' = [taskPc EXCEPT ![c] = "sending"]
          /\ UNCHANGED searchCalls
     ELSE /\ searchCalls' = [searchCalls EXCEPT ![c] = @ + 1]
          /\ taskPc' = [taskPc EXCEPT ![c] = "calling"]
          /\ UNCHANGED taskResult
  /\ UNCHANGED <<identity, response, mainPc, username, runPc, ret, ctxErr,
                 results, closed, wg, output>>
  /\ UNCHANGED <<fitVars, unitVars>>

TaskGetReturn_Retry(c) ==
  /\ runPc # "panicked"
  /\ taskPc[c] = "calling"
  /\ IF response[c].err /\ searchCalls[c] < 2
     THEN /\ taskPc' = [taskPc EXCEPT ![c] = "ready"]
          /\ UNCHANGED taskResult
     ELSE /\ taskResult' = [taskResult EXCEPT ![c] = AsyncPRResult(ctxErr, c, username, response[c])]
          /\ taskPc' = [taskPc EXCEPT ![c] = "sending"]
  /\ UNCHANGED <<identity, response, mainPc, username, runPc, ret, ctxErr,
                 results, closed, wg, output, searchCalls>>
  /\ UNCHANGED <<fitVars, unitVars>>

\* the search call returns and the task builds its result
TaskGetReturn(c) ==
  /\ runPc # "panicked"
  /\ taskPc[c] = "calling"
  /\ taskResult' = [taskResult EXCEPT ![c] = AsyncPRResult(ctxErr, c, username, response[c])]
  /\ taskPc' = [taskPc EXCEPT ![c] = "sending"]
  /\ UNCHANGED <<identity, response, mainPc, username, runPc, ret, ctxErr,
                 results, closed, wg, output, searchCalls>>
  /\ UNCHANGED <<fitVars, unitVars>>

\* the task sends its result (blocks while the buffer is full), then wg.Done
TaskSend(c) ==
  /\ runPc # "panicked"
  /\ taskPc[c] = "sending"
  /\ Len(results) < ChanCap
  /\ results' = Append(results, taskResult[c])
  /\ wg' = wg - 1
  /\ taskPc' = [taskPc EXCEPT ![c] = "done"]
  /\ UNCHANGED <<identity, response, mainPc, username, runPc, ret, ctxErr,
                 taskResult, closed, output, searchCalls>>
  /\ UNCHANGED <<fitVars, unitVars>>

\* wg.Wait() returns and the channel is closed
CloseResults ==
  /\ runPc \in {"loop", "returned"}
  /\ wg = 0
  /\ ~closed
  /\ closed' = TRUE
  /\ UNCHANGED <<identity, response, mainPc, username, runPc, ret, ctxErr, taskPc,
                 taskResult, results, wg, output, searchCalls>>
  /\ UNCHANGED <<fitVars, unitVars>>

\* Run receives one result and handles it
RunReceive ==
  /\ runPc = "loop"
  /\ results # <<>>
  /\ LET p == ProcessResult(Head(results), username) IN
       /\ output' = output \o p.out
       /\ ret' = p.ret
       /\ runPc' = p.pc
       /\ ctxErr' = IF p.pc = "returned" THEN Cancelled(ctxErr) ELSE ctxErr
  /\ results' = Tail(results)
  /\ UNCHANGED <<identity, response, mainPc, username, taskPc, taskResult,
                 closed, wg, searchCalls>>
  /\ UNCHANGED <<fitVars, unitVars>>

\* the channel is closed and drained: Run returns nil
RunDrained ==
  /\ runPc = "loop"
  /\ results = <<>>
  /\ closed
  /\ runPc' = "returned"
  /\ ret' = "nil"
  /\ ctxErr' = Cancelled(ctxErr)
  /\ UNCHANGED <<identity, response, mainPc, username, taskPc, taskResult,
                 results, closed, wg, output, searchCalls>>
  /\ UNCHANGED <<fitVars, unitVars>>

\* the 10 second deadline of Run's context passes
DeadlineExpires ==
  /\ runPc = "loop"
  /\ ctxErr = "none"
  /\ ctxErr' = "DeadlineExceeded"
  /\ UNCHANGED <<identity, response, mainPc, username, runPc, ret, taskPc,
                 taskResult, results, closed, wg, output, searchCalls>>
  /\ UNCHANGED <<fitVars, unitVars>>

Next ==
  \/ NewPRChecker
  \/ RunStart
  \/ \E c \in CategorySet : TaskCall(c)
  \/ \E c \in CategorySet : TaskGetReturn(c)
  \/ \E c \in CategorySet : TaskSend(c)
  \/ CloseResults
  \/ RunReceive
  \/ RunDrained
  \/ DeadlineExpires

Spec == Init /\ [][Next]_vars

\* the scheduler runs every goroutine that can take a step, and every search
\* call returns; the deadline need not pass
Fairness ==
  /\ WF_vars(NewPRChecker)
  /\ WF_vars(RunStart)
  /\ \A c \in CategorySet :
       WF_vars(TaskCall(c)) /\ WF_vars(TaskGetReturn(c)) /\ WF_vars(TaskSend(c))
  /\ WF_vars(CloseResults)
  /\ WF_vars(RunReceive)
  /\ WF_vars(RunDrained)

FairSpec == Init /\ [][Next]_vars /\ Fairness

(* ---------------- truncateString applied to bounded inputs ------------- *)
InitFit ==
  /\ identity = [err |-> FALSE, login |-> Ptr("alice")]
  /\ response = [c \in CategorySet |-> [err |-> FALSE, Issues |-> <<>>]]
  /\ RunFresh
  /\ inputS \in Strings
  /\ inputW \in 0..MaxWidth
  /\ fitDone = FALSE
  /\ fitResult = [panic |-> FALSE, str |-> <<>>]
  /\ UnitIdle

Truncate ==
  /\ ~fitDone
  /\ fitResult' = truncateString(inputS, inputW)
  /\ fitDone' = TRUE
  /\ UNCHANGED <<inputS, inputW>>
  /\ UNCHANGED <<runVars, unitVars>>

NextFit == Truncate

SpecFit == InitFit /\ [][NextFit]_vars

(* ---- buildSearchQuery and displayPullRequests applied to bounded inputs -- *)
\* category strings a caller can pass: the two constants and two others
UnitCategories == {categoryCreated, categoryReviewer, "review-requested", "invalid"}
Accounts == {"alice", "testuser"}
\* what the terminal shows before the render call
PriorOutputs == {<<>>, << <<"blank">> >>}

InitUnit ==
  /\ identity = [err |-> FALSE, login |-> Ptr("alice")]
  /\ response = [c \in CategorySet |-> [err |-> FALSE, Issues |-> <<>>]]
  /\ RunFresh
  /\ FitIdle
  /\ unitCategory \in UnitCategories
  /\ unitUser \in Accounts
  /\ unitIssues \in IssueLists
  /\ unitOutput \in PriorOutputs
  /\ queryDone = FALSE
  /\ queryResult = [err |-> FALSE, query |-> <<>>]
  /\ renderDone = FALSE
  /\ renderResult = [err |-> "nil", panic |-> FALSE]

\* pc.buildSearchQuery(category) with pc.username = unitUser
BuildQuery ==
  /\ ~queryDone
  /\ queryResult' = buildSearchQuery(unitCategory, unitUser)
  /\ queryDone' = TRUE
  /\ UNCHANGED <<unitCategory, unitUser, unitIssues, unitOutput, renderDone, renderResult>>
  /\ UNCHANGED <<runVars, fitVars>>

\* pc.displayPullRequests(issues, category) with pc.username = unitUser
Display ==
  /\ ~renderDone
  /\ LET d == displayPullRequests(unitIssues, unitCategory, unitUser) IN
       /\ unitOutput' = unitOutput \o d.out
       /\ renderResult' = [err |-> d.err, panic |-> d.panic]
  /\ renderDone' = TRUE
  /\ UNCHANGED <<unitCategory, unitUser, unitIssues, queryDone, queryResult>>
  /\ UNCHANGED <<runVars, fitVars>>

NextUnit ==
  \/ BuildQuery
  \/ Display

SpecUnit == InitUnit /\ [][NextUnit]_vars

(* =============================== claims ================================ *)
IsHeader(line, c) == line[1] = "header" /\ line[2] = c
Rendered(c) == \E i \in 1..Len(output) : IsHeader(output[i], c)
TimesRendered(c) == Cardinality({i \in 1..Len(output) : IsHeader(output[i], c)})
FetchFailed(c) == response[c].err
AllIssuesHaveTitleAndURL(c) ==
  \A i \in 1..Len(response[c].Issues) :
    response[c].Issues[i].Title # Nil /\ response[c].Issues[i].HTMLURL # Nil
RunEnded == runPc \in {"returned", "panicked"}

\* C1: when both fetches succeed, the review-requested table is never
\* rendered before the created table, whatever the arrival order.
C1_FixedCategoryOrder ==
  (\A c \in CategorySet : ~FetchFailed(c)) =>
    \A i \in 1..Len(output) :
      IsHeader(output[i], categoryReviewer) =>
        \E j \in 1..(i - 1) : IsHeader(output[j], categoryCreated)

\* C2: a run that ends on a failed fetch has printed nothing at all.
C2_AllOrNothing == (ret = "fetchErr") => (output = <<>>)

\* C3: a search call that is outstanding when the deadline expires ends with
\* a DeadlineExceeded result for its category.
C3_DeadlineCancelsOutstandingCall ==
  [][\A c \in CategorySet :
       (ctxErr = "DeadlineExceeded" /\ taskPc[c] = "calling" /\ taskPc'[c] # "calling")
         => taskResult'[c].Error = "DeadlineExceeded"]_vars

\* C4: if any fetch fails, Run never returns nil; and from the step in which
\* Run receives a failed result on, nothing more is printed, even while the
\* sibling task still completes.
C4_FailFast ==
  /\ [](runPc = "returned" /\ (\E c \in CategorySet : FetchFailed(c)) => ret # "nil")
  /\ [](ret = "fetchErr" => runPc = "returned")
  /\ [][ret' = "fetchErr" => output' = output]_vars

C4_Witness ==
  /\ ret = "fetchErr"
  /\ \E c \in CategorySet : ~FetchFailed(c) /\ taskPc[c] = "done" /\ results # <<>>

\* C5: once Run has ended, it has returned nil exactly when every fetch
\* succeeded and every issue has title and url; and then each category was
\* rendered exactly once.
C5_NilIffAllValid ==
  RunEnded =>
    /\ ret = "nil" <=>
         \A c \in CategorySet : ~FetchFailed(c) /\ AllIssuesHaveTitleAndURL(c)
    /\ ret = "nil" => \A c \in CategorySet : TimesRendered(c) = 1

\* C6: an identity call that fails, or returns an absent or empty login,
\* yields no PRChecker, and no search call is ever issued.
C6_NoCheckerWithoutLogin ==
  (identity.err \/ identity.login = Nil \/ identity.login = Ptr("")) =>
    /\ mainPc \in {"start", "fatal"}
    /\ \A c \in CategorySet : searchCalls[c] = 0

\* C7: for a target width of at least 4, the result is exactly that wide.
C7_ExactWidth ==
  (fitDone /\ inputW >= 4) =>
    ~fitResult.panic /\ StringWidth(fitResult.str) = inputW

C7_Witness ==
  /\ fitDone /\ inputW >= 4
  /\ StringWidth(inputS) > inputW
  /\ \E i, j \in 1..Len(inputS) : inputS[i] = "a" /\ inputS[j] = "W"
  /\ StringWidth(truncated(inputS, 0, <<>>, inputW)) + 3 < inputW

\* C8: a string that fits is returned followed by exactly the missing
\* spaces; a string of exactly the target width is returned as it is.
C8_PadOnly ==
  (fitDone /\ StringWidth(inputS) <= inputW) =>
    /\ ~fitResult.panic
    /\ fitResult.str = inputS \o Repeat(" ", inputW - StringWidth(inputS))
    /\ StringWidth(inputS) = inputW => fitResult.str = inputS

C8_Witness ==
  /\ fitDone /\ StringWidth(inputS) = inputW
  /\ \E j \in 1..Len(inputS) : inputS[j] = "W"

\* the result is a greedy prefix of s, the ellipsis, then padding: the prefix
\* with the ellipsis fits in w columns and one more codepoint would not
GreedyTruncation(s, w, res) ==
  \E k \in 0..Len(s) :
    /\ StringWidth(SubSeq(s, 1, k)) + 3 <= w
    /\ k < Len(s) => StringWidth(SubSeq(s, 1, k + 1)) + 3 > w
    /\ res = SubSeq(s, 1, k) \o Ellipsis
               \o Repeat(" ", w - StringWidth(SubSeq(s, 1, k)) - 3)

\* C9 as stated: for every target width, a string that is too wide is cut
\* to a greedy prefix plus `...` that fits in the target width.
C9_EllipsisFitsAnyWidth ==
  (fitDone /\ StringWidth(inputS) > inputW) =>
    ~fitResult.panic /\ GreedyTruncation(inputS, inputW, fitResult.str)

\* C9 as amended: the same for target widths of at least 3.
C9_EllipsisFitsFromWidth3 ==
  (fitDone /\ StringWidth(inputS) > inputW /\ inputW >= 3) =>
    ~fitResult.panic /\ GreedyTruncation(inputS, inputW, fitResult.str)

C9_Witness ==
  /\ fitDone /\ StringWidth(inputS) > inputW /\ inputW >= 3
  /\ LET kept == truncated(inputS, 0, <<>>, inputW) IN
       /\ Len(kept) >= 1
       /\ inputS[Len(kept) + 1] = "W"
       /\ StringWidth(kept) + 3 = inputW - 1

\* C10: for a target width of 0..2 and a wider string, the call returns a
\* string of exactly the target width.
C10_TinyWidthStillExact ==
  (fitDone /\ inputW \in 0..2 /\ StringWidth(inputS) > inputW) =>
    ~fitResult.panic /\ StringWidth(fitResult.str) = inputW

\* C11 as stated: `created` maps to the author query, `review-requested` to
\* the user-review-requested query, every other category to an error and no
\* query.
C11_QueryMapping ==
  queryDone =>
    /\ unitCategory = "created" =>
         queryResult = [err |-> FALSE,
                        query |-> <<"is:open+is:pr+archived:false", "+author:", unitUser>>]
    /\ unitCategory = "review-requested" =>
         queryResult = [err |-> FALSE,
                        query |-> <<"is:open+is:pr+archived:false",
                                    "+user-review-requested:", unitUser>>]
    /\ unitCategory \notin {"created", "review-requested"} =>
         queryResult = [err |-> TRUE, query |-> <<>>]

\* C11 as amended: the category of review requests is the string `requested`.
C11_QueryMappingRequested ==
  queryDone =>
    /\ unitCategory = "created" =>
         queryResult = [err |-> FALSE,
                        query |-> <<"is:open+is:pr+archived:false", "+author:", unitUser>>]
    /\ unitCategory = "requested" =>
         queryResult = [err |-> FALSE,
                        query |-> <<"is:open+is:pr+archived:false",
                                    "+user-review-requested:", unitUser>>]
    /\ unitCategory \notin {"created", "requested"} =>
         queryResult = [err |-> TRUE, query |-> <<>>]

C11_Witness ==
  /\ queryDone /\ unitCategory = "requested" /\ unitUser = "alice"
  /\ ~queryResult.err /\ Len(queryResult.query) = 3

RowsPrinted == Cardinality({i \in 1..Len(unitOutput) : unitOutput[i][1] = "row"})
HasBadIssue == \E i \in 1..Len(unitIssues) : IssueInvalid(unitIssues[i])
FirstBadIssue ==
  CHOOSE i \in 1..Len(unitIssues) :
    IssueInvalid(unitIssues[i]) /\ \A j \in 1..(i - 1) : ~IssueInvalid(unitIssues[j])

\* C12: a batch with an issue lacking title or url makes the render return
\* the invalid-issue-data error at the first such issue, wherever it stands:
\* exactly the rows before it are printed.
C12_FailsAtFirstBadIssue ==
  (renderDone /\ unitCategory \in CategorySet /\ HasBadIssue) =>
    /\ renderResult = [err |-> "InvalidIssueData", panic |-> FALSE]
    /\ RowsPrinted = FirstBadIssue - 1

\* C13: a render with a category outside the fixed set returns the
\* unsupported-category error and leaves the terminal output as it was.
C13_UnsupportedWritesNothing ==
  [][(~renderDone /\ renderDone' /\ unitCategory \notin CategorySet) =>
       /\ unitOutput' = unitOutput
       /\ renderResult' = [err |-> "UnsupportedCategory", panic |-> FALSE]]_vars

C13_Witness ==
  /\ renderDone /\ unitCategory \notin CategorySet
  /\ unitIssues # <<>>
  /\ \A i \in 1..Len(unitIssues) :
       ~IssueInvalid(unitIssues[i]) /\ unitIssues[i].UpdatedAt # Nil
  /\ unitOutput # <<>>

\* C14: a render of a supported category with no issues succeeds and prints
\* just the section header and the "no results" notice.
C14_EmptyListNotice ==
  (renderDone /\ unitCategory \in CategorySet /\ unitIssues = <<>>) =>
    /\ renderResult = [err |-> "nil", panic |-> FALSE]
    /\ \E prior \in PriorOutputs :
         unitOutput = prior \o << <<"header", unitCategory, unitUser>>, <<"noResults">> >>

C14_Witness ==
  /\ renderDone /\ unitCategory = categoryReviewer /\ unitIssues = <<>>
  /\ Len(unitOutput) = 3

TaskLive(c) == taskPc[c] \in {"ready", "calling", "sending"}

\* C15: one task per category, and each category's search call is issued
\* exactly once: never twice, also after a failure, and a task that has not
\* called yet can always do so, whatever happened to its sibling.
C15_OneCallPerCategory ==
  /\ runPc # "idle" => wg = Cardinality({c \in CategorySet : TaskLive(c)})
  /\ \A c \in CategorySet :
       /\ searchCalls[c] <= 1
       /\ searchCalls[c] = 1 <=> taskPc[c] \in {"calling", "sending", "done"}
       /\ (taskPc[c] = "ready" /\ runPc # "panicked") => ENABLED TaskCall(c)

C15_Witness ==
  /\ ret = "fetchErr"
  /\ \E c, d \in CategorySet :
       /\ taskPc[c] = "done" /\ taskResult[c].Error = "FetchFailed"
       /\ taskPc[d] = "calling" /\ searchCalls[d] = 1

\* C16: the channel never holds more than 2 results, it is closed only after
\* both tasks have sent, and a task that is about to send can always send:
\* the channel is neither full nor closed, also after Run has returned.
C16_HandOffNeverBlocks ==
  /\ Len(results) <= 2
  /\ closed => \A c \in CategorySet : taskPc[c] = "done"
  /\ \A c \in CategorySet :
       taskPc[c] = "sending" =>
         /\ ~closed
         /\ runPc # "panicked" => ENABLED TaskSend(c)

C16_Witness ==
  /\ runPc = "returned" /\ ret = "fetchErr"
  /\ Len(results) = 1
  /\ closed
  /\ \A c \in CategorySet : taskPc[c] = "done"

\* C17: when every search call returns and every goroutine is scheduled, a
\* running Run eventually returns.
C17_RunReturns == (runPc = "loop") ~> (runPc = "returned")

====
